---- MODULE Spec2Model ----
(***************************************************************************)
(* Model of Backend/codebase/fastapi_app/main.py: the Kafka -> Postgres -> *)
(* WebSocket bridge.  One asyncio event loop runs the lifespan handlers    *)
(* (startup, shutdown), the consumer task (kafka_consumer_task), and one   *)
(* handler per websocket (ws_alerts).  An action is the code one coroutine *)
(* runs between two suspension points (await).                             *)
(***************************************************************************)
EXTENDS Integers, Sequences, FiniteSets, TLC

\* ---- bounds of the model ----
MaxMsgs == 2       \* messages the broker delivers
MaxConns == 3      \* websocket objects ever created
MaxDup == 1        \* repeated registrations of a socket already registered
MaxCrashes == 1    \* process crashes followed by a restart
MaxRows == 25      \* rows in table activity
MaxTs == 3         \* distinct store timestamps
MaxReaders == 5    \* /recent requests

\* ---- program constants ----
PoolMax == 5       \* asyncpg.create_pool(..., max_size=5)
RecentLimit == 20  \* ... ORDER BY ts DESC LIMIT 20

Conns == 1..MaxConns
Kinds == {"valid", "malformed"}
Readers == 1..MaxReaders
Consumer == 0      \* the consumer task as a holder of a pool connection (requests hold as 1, 2, ...)
Stamps == 1..MaxTs

VARIABLES
    sup,           \* lifespan: "init","creating_pool","running","closing","stopped","start_failed"
    pool,          \* app.state.db: "none","open","closing","closed"
    holders,       \* who holds a pool connection: Consumer, /recent requests
    relInFlight,   \* the shielded pool.release() of the consumer's connection is running
    pc,            \* position of kafka_consumer_task
    cur,           \* offset (index in log) of the message of the current cycle, 0 before the first
    exc,           \* exception travelling through the `async with` exit: "none","persist","cancel"
    exitWhy,       \* why the loop was left: "none","cancelled","persist_error","decode_error","start_error"
    cancelReq,     \* task.cancel() was called and CancelledError is not yet thrown into the task
    stopped,       \* consumer.stop() completed
    log,           \* kinds of the messages delivered by the broker so far, in delivery order
    rows,          \* the activity table: offsets of the inserted messages, in insertion order
    inflight,      \* offsets whose INSERT has been issued and has not returned
    insertAborted, \* offsets whose acquire/INSERT raised (failure or cancellation)
    passes,        \* offsets for which manager.broadcast was called, in call order
    active,        \* manager.active
    ws,            \* per websocket, its ws_alerts handler: "new","open","gone"
    bIdx,          \* list iterator of `for connection in self.active`: items already fetched
    bCur,          \* connection whose send_text is awaited, 0 if none
    to_remove,     \* broadcast's local list
    bPhase,        \* "idle","iter","ended","aborted"
    recv,          \* per websocket, the offsets whose alert it was sent successfully, in order
    attempts,      \* per websocket, send_text calls of the current pass
    passStart,     \* manager.active when the current pass started
    passDirty,     \* another coroutine changed manager.active since the current pass started
    dropped,       \* connections removed by the cleanup loop of an earlier, completed pass
    unregErr,      \* some manager.disconnect call raised
    doubleRemoved, \* the cleanup loop met a connection that was already absent
    dups,          \* manager.connect calls made for a socket that was already registered
    lastDisc,      \* connection most recently passed to manager.disconnect by a handler, 0 if the registry changed since
    committed,     \* offset committed to the broker for group "fastapi-consumer": records 1..committed are not delivered again
    crashes,       \* process crashes so far
    tbl,           \* table activity as seen by /recent: per store timestamp, the number of rows with it
    qres,          \* /recent answer since the last insert (fresh), out = ts column of its rows, in order
    rd,            \* per /recent request, the position of its handler: "idle","acquiring","fetching","releasing","releasing_err","done","failed"
    payload,       \* msg.value of the record whose alert is built: a function from its keys to their values
    pushed         \* the object given to json.dumps for that record, <<>> before it is built

supVars == <<sup, pool, holders, relInFlight>>
consVars == <<pc, cur, exc, exitWhy, cancelReq, stopped>>
dataVars == <<log, rows, inflight, insertAborted, passes>>
regVars == <<active, ws>>
bcVars == <<bIdx, bCur, to_remove, bPhase>>
histVars == <<recv, attempts, passStart, passDirty, dropped, unregErr, doubleRemoved, dups, lastDisc>>
coreVars == <<supVars, consVars, dataVars, regVars, bcVars, histVars>>
extVars == <<committed, crashes, tbl, qres, rd, payload, pushed>>
vars == <<supVars, consVars, dataVars, regVars, bcVars, histVars, extVars>>

\* ---- lists (Python list semantics) ----
In(c, s) == \E i \in DOMAIN s : s[i] = c
Range(s) == {s[i] : i \in DOMAIN s}
FirstIndex(s, c) == CHOOSE i \in DOMAIN s : s[i] = c /\ \A j \in 1..(i - 1) : s[j] # c

\* list.remove(x): drops the first occurrence, raises ValueError when absent
ListRemove(s, c) ==
    IF In(c, s)
    THEN [list |-> SubSeq(s, 1, FirstIndex(s, c) - 1) \o SubSeq(s, FirstIndex(s, c) + 1, Len(s)),
          raised |-> FALSE]
    ELSE [list |-> s, raised |-> TRUE]

\* ConnectionManager.disconnect without the membership test
disconnect_unguarded(s, c) == ListRemove(s, c)

\* ConnectionManager.disconnect
disconnect(s, c) ==
    IF In(c, s) THEN ListRemove(s, c) ELSE [list |-> s, raised |-> FALSE]

\* ConnectionManager.connect after accept() returned
connect(s, c) == Append(s, c)

\* broadcast without its cleanup loop
Cleanup_Skip(s, rem) == [list |-> s, raised |-> FALSE, absent |-> FALSE]

\* `for c in to_remove: self.disconnect(c)`
RECURSIVE Cleanup(_, _)
Cleanup(s, rem) ==
    IF rem = <<>>
    THEN [list |-> s, raised |-> FALSE, absent |-> FALSE]
    ELSE LET d == disconnect(s, Head(rem))
             r == Cleanup(d.list, Tail(rem))
         IN [list |-> r.list,
             raised |-> d.raised \/ r.raised,
             absent |-> (~In(Head(rem), s)) \/ r.absent]

\* One turn of `for connection in self.active` after the previous send returned:
\* the list iterator yields self.active[idx] if idx < len, else the loop ends and
\* the cleanup loop runs.
BStep(act, idx, rem) ==
    IF idx < Len(act)
    THEN [more |-> TRUE, conn |-> act[idx + 1], idx |-> idx + 1, list |-> act,
          raised |-> FALSE, absent |-> FALSE]
    ELSE LET c == Cleanup(act, rem)
         IN [more |-> FALSE, conn |-> 0, idx |-> idx, list |-> c.list,
             raised |-> c.raised, absent |-> c.absent]

\* a record carrying the four fields of an ActivityEvent and nothing else
PlainPayload ==
    [k \in {"student_id", "status", "confidence", "timestamp"} |-> "v1"]

InitExt ==
    /\ committed = 0 /\ crashes = 0
    /\ tbl = [t \in Stamps |-> 0] /\ qres = [fresh |-> FALSE, out |-> <<>>]
    /\ rd = [r \in Readers |-> "idle"]
    /\ payload = PlainPayload /\ pushed = <<>>

InitCore ==
    /\ sup = "init" /\ pool = "none" /\ holders = {} /\ relInFlight = FALSE
    /\ pc = "not_started" /\ cur = 0 /\ exc = "none" /\ exitWhy = "none"
    /\ cancelReq = FALSE /\ stopped = FALSE
    /\ log = <<>> /\ rows = <<>> /\ inflight = {} /\ insertAborted = {} /\ passes = <<>>
    /\ active = <<>> /\ ws = [c \in Conns |-> "new"]
    /\ bIdx = 0 /\ bCur = 0 /\ to_remove = <<>> /\ bPhase = "idle"
    /\ recv = [c \in Conns |-> <<>>] /\ attempts = [c \in Conns |-> 0]
    /\ passStart = <<>> /\ passDirty = FALSE /\ dropped = {}
    /\ unregErr = FALSE /\ doubleRemoved = FALSE /\ dups = 0 /\ lastDisc = 0

Init == InitCore /\ InitExt

\* ---------------- lifespan ----------------

\* startup() with the two statements swapped: the task is created before the pool
StartupBegin_LaunchFirst ==
    /\ sup = "init"
    /\ sup' = "creating_pool"
    /\ pc' = "starting"
    /\ UNCHANGED <<pool, holders, relInFlight, cur, exc, exitWhy, cancelReq, stopped,
                   dataVars, regVars, bcVars, histVars>>
    /\ UNCHANGED extVars

\* startup(): runs up to `await asyncpg.create_pool(...)`
StartupBegin ==
    /\ sup = "init"
    /\ sup' = "creating_pool"
    /\ UNCHANGED <<pool, holders, relInFlight, consVars, dataVars, regVars, bcVars, histVars>>
    /\ UNCHANGED extVars

\* create_pool returned (or raised): app.state.db is set, then create_task
StartupPoolReady(ok) ==
    /\ sup = "creating_pool"
    /\ IF ok
       THEN /\ pool' = "open"
            /\ sup' = "running"
            /\ pc' = IF pc = "not_started" THEN "starting" ELSE pc
       ELSE /\ sup' = "start_failed"
            /\ UNCHANGED <<pool, pc>>
    /\ UNCHANGED <<holders, relInFlight, cur, exc, exitWhy, cancelReq, stopped,
                   dataVars, regVars, bcVars, histVars>>
    /\ UNCHANGED extVars

\* shutdown(): kafka_task.cancel(), then db.close() runs to its first await
\* (asyncpg sets _closing and waits for the held connections)
ShutdownBegin ==
    /\ sup = "running"
    /\ sup' = "closing"
    /\ cancelReq' = (pc # "done")
    /\ pool' = "closing"
    /\ UNCHANGED <<holders, relInFlight, pc, cur, exc, exitWhy, stopped,
                   dataVars, regVars, bcVars, histVars>>
    /\ UNCHANGED extVars

\* db.close() returns once every connection has been released
ShutdownFinish ==
    /\ sup = "closing"
    /\ holders = {}
    /\ pool' = "closed"
    /\ sup' = "stopped"
    /\ UNCHANGED <<holders, relInFlight, consVars, dataVars, regVars, bcVars, histVars>>
    /\ UNCHANGED extVars

\* ---------------- ConnectionManager.broadcast ----------------

\* broadcast launched as a task of its own instead of being awaited: the
\* consumer loop goes back to the broker while the pass is under way
BroadcastTurn_Detached(rem, start) ==
    LET s == BStep(active, IF start THEN 0 ELSE bIdx, rem)
        base == IF start THEN [c \in Conns |-> 0] ELSE attempts
    IN /\ bIdx' = s.idx
       /\ bCur' = s.conn
       /\ to_remove' = rem
       /\ active' = s.list
       /\ pc' = "waiting"
       /\ bPhase' = IF s.more THEN "iter" ELSE "ended"
       /\ attempts' = IF s.more THEN [base EXCEPT ![s.conn] = @ + 1] ELSE base
       /\ passStart' = IF start THEN active ELSE passStart
       /\ passDirty' = IF start THEN FALSE ELSE passDirty
       /\ dropped' = IF s.more THEN dropped ELSE dropped \cup Range(rem)
       /\ unregErr' = (unregErr \/ s.raised)
       /\ doubleRemoved' = IF start THEN s.absent ELSE (doubleRemoved \/ s.absent)
       /\ lastDisc' = IF s.list # active THEN 0 ELSE lastDisc
       /\ dups' = dups

\* The code of broadcast from one resumption to the next suspension: with
\* start = TRUE the call itself (to_remove = [], first turn of the loop), else
\* the turn after a send returned; rem is to_remove after that send.
BroadcastTurn(rem, start) ==
    LET s == BStep(active, IF start THEN 0 ELSE bIdx, rem)
        base == IF start THEN [c \in Conns |-> 0] ELSE attempts
    IN /\ bIdx' = s.idx
       /\ bCur' = s.conn
       /\ to_remove' = rem
       /\ active' = s.list
       /\ pc' = IF s.more THEN "sending" ELSE "waiting"
       /\ bPhase' = IF s.more THEN "iter" ELSE "ended"
       /\ attempts' = IF s.more THEN [base EXCEPT ![s.conn] = @ + 1] ELSE base
       /\ passStart' = IF start THEN active ELSE passStart
       /\ passDirty' = IF start THEN FALSE ELSE passDirty
       /\ dropped' = IF s.more THEN dropped ELSE dropped \cup Range(rem)
       /\ unregErr' = (unregErr \/ s.raised)
       /\ doubleRemoved' = IF start THEN s.absent ELSE (doubleRemoved \/ s.absent)
       /\ lastDisc' = IF s.list # active THEN 0 ELSE lastDisc
       /\ dups' = dups

\* broadcast without the try/except around send_text: a failed send leaves
\* broadcast and the consumer loop
SendDone_Raise(ok) ==
    /\ pc = "sending"
    /\ ~cancelReq
    /\ IF ok
       THEN /\ recv' = [recv EXCEPT ![bCur] = Append(@, cur)]
            /\ BroadcastTurn(to_remove, FALSE)
            /\ UNCHANGED exitWhy
       ELSE /\ pc' = "stopping"
            /\ exitWhy' = "send_error"
            /\ bPhase' = "aborted"
            /\ bCur' = 0
            /\ UNCHANGED <<recv, bIdx, to_remove, active, attempts, passStart, passDirty,
                           dropped, unregErr, doubleRemoved, lastDisc, dups>>
    /\ UNCHANGED <<supVars, cur, exc, cancelReq, stopped, dataVars, ws>>
    /\ UNCHANGED extVars

\* `await connection.send_text(message)` returned (ok) or raised an Exception
SendDone(ok) ==
    /\ pc = "sending"
    /\ ~cancelReq
    /\ recv' = IF ok THEN [recv EXCEPT ![bCur] = Append(@, cur)] ELSE recv
    /\ BroadcastTurn(IF ok THEN to_remove ELSE Append(to_remove, bCur), FALSE)
    /\ UNCHANGED <<supVars, cur, exc, exitWhy, cancelReq, stopped, dataVars, ws>>
    /\ UNCHANGED extVars

\* ---------------- kafka_consumer_task ----------------

\* `await consumer.start()` returned (ok) or raised; it is outside the try block
ConsumerStart(ok) ==
    /\ pc = "starting"
    /\ ~cancelReq
    /\ IF ok
       THEN pc' = "waiting" /\ UNCHANGED exitWhy
       ELSE pc' = "done" /\ exitWhy' = "start_error"
    /\ UNCHANGED <<supVars, cur, exc, cancelReq, stopped, dataVars, regVars, bcVars, histVars>>
    /\ UNCHANGED extVars

\* the loop outside the try/finally: a deserialization error ends the task
\* without consumer.stop()
Receive_NoFinally(kind) ==
    /\ pc = "waiting"
    /\ ~cancelReq
    /\ cur = Len(log)
    /\ Len(log) < MaxMsgs
    /\ log' = Append(log, kind)
    /\ cur' = Len(log) + 1
    /\ IF kind = "valid"
       THEN pc' = "acquiring" /\ UNCHANGED exitWhy
       ELSE pc' = "done" /\ exitWhy' = "decode_error"
    /\ UNCHANGED <<supVars, exc, cancelReq, stopped, rows, inflight, insertAborted, passes,
                   regVars, bcVars, histVars>>
    /\ UNCHANGED extVars

\* `async for msg in consumer`: the broker delivers the next record; the
\* value_deserializer (json.loads) raises on a malformed payload and nothing in
\* the loop catches it, so it leaves the loop through `finally`.
Receive(kind) ==
    /\ pc = "waiting"
    /\ ~cancelReq
    /\ cur = Len(log)
    /\ Len(log) < MaxMsgs
    /\ log' = Append(log, kind)
    /\ cur' = Len(log) + 1
    /\ IF kind = "valid"
       THEN pc' = "acquiring" /\ UNCHANGED exitWhy
       ELSE pc' = "stopping" /\ exitWhy' = "decode_error"
    /\ UNCHANGED <<supVars, exc, cancelReq, stopped, rows, inflight, insertAborted, passes,
                   regVars, bcVars, histVars>>
    /\ UNCHANGED extVars

\* a failed acquire is logged and the record skipped
AcquireDone_Skip(ok) ==
    /\ pc = "acquiring"
    /\ ~cancelReq
    /\ IF ok
       THEN /\ pool = "open"
            /\ Cardinality(holders) < PoolMax
            /\ holders' = holders \cup {Consumer}
            /\ inflight' = inflight \cup {cur}
            /\ pc' = "inserting"
            /\ UNCHANGED <<insertAborted, exitWhy>>
       ELSE /\ (pool # "open" \/ Cardinality(holders) < PoolMax)
            /\ insertAborted' = insertAborted \cup {cur}
            /\ pc' = "waiting"
            /\ UNCHANGED <<holders, inflight, exitWhy>>
    /\ UNCHANGED <<sup, pool, relInFlight, cur, exc, cancelReq, stopped, log, rows, passes,
                   regVars, bcVars, histVars>>
    /\ UNCHANGED extVars

\* `async with app.state.db.acquire() as conn` entered (ok) or raised; on
\* success conn.execute(INSERT ...) is issued.  acquire() has no timeout: with
\* all max_size connections in use it neither returns nor raises; it raises
\* when the pool is closing or the connection cannot be made.
AcquireDone(ok) ==
    /\ pc = "acquiring"
    /\ ~cancelReq
    /\ IF ok
       THEN /\ pool = "open"
            /\ Cardinality(holders) < PoolMax
            /\ holders' = holders \cup {Consumer}
            /\ inflight' = inflight \cup {cur}
            /\ pc' = "inserting"
            /\ UNCHANGED <<insertAborted, exitWhy>>
       ELSE /\ (pool # "open" \/ Cardinality(holders) < PoolMax)
            /\ insertAborted' = insertAborted \cup {cur}
            /\ pc' = "stopping"
            /\ exitWhy' = "persist_error"
            /\ UNCHANGED <<holders, inflight>>
    /\ UNCHANGED <<sup, pool, relInFlight, cur, exc, cancelReq, stopped, log, rows, passes,
                   regVars, bcVars, histVars>>
    /\ UNCHANGED extVars

\* execute raised but the loop swallows it and goes on to broadcast
InsertDone_Swallow(ok) ==
    /\ pc = "inserting"
    /\ ~cancelReq
    /\ inflight' = inflight \ {cur}
    /\ pc' = "releasing"
    /\ relInFlight' = TRUE
    /\ exc' = "none"
    /\ IF ok
       THEN rows' = Append(rows, cur) /\ UNCHANGED insertAborted
       ELSE rows' = rows /\ insertAborted' = insertAborted \cup {cur}
    /\ UNCHANGED <<sup, pool, holders, cur, exitWhy, cancelReq, stopped, log, passes,
                   regVars, bcVars, histVars>>
    /\ UNCHANGED extVars

\* the row is written at the head of the table instead of its end
InsertDone_Prepend(ok) ==
    /\ pc = "inserting"
    /\ ~cancelReq
    /\ inflight' = inflight \ {cur}
    /\ pc' = "releasing"
    /\ relInFlight' = TRUE
    /\ IF ok
       THEN rows' = <<cur>> \o rows /\ exc' = "none" /\ UNCHANGED insertAborted
       ELSE rows' = rows /\ exc' = "persist" /\ insertAborted' = insertAborted \cup {cur}
    /\ UNCHANGED <<sup, pool, holders, cur, exitWhy, cancelReq, stopped, log, passes,
                   regVars, bcVars, histVars>>
    /\ UNCHANGED extVars

\* `await conn.execute(...)` returned (ok) or raised; the `async with` exit
\* then awaits pool.release(conn)
InsertDone(ok) ==
    /\ pc = "inserting"
    /\ ~cancelReq
    /\ inflight' = inflight \ {cur}
    /\ pc' = "releasing"
    /\ relInFlight' = TRUE
    /\ IF ok
       THEN rows' = Append(rows, cur) /\ exc' = "none" /\ UNCHANGED insertAborted
       ELSE rows' = rows /\ exc' = "persist" /\ insertAborted' = insertAborted \cup {cur}
    /\ UNCHANGED <<sup, pool, holders, cur, exitWhy, cancelReq, stopped, log, passes,
                   regVars, bcVars, histVars>>
    /\ UNCHANGED extVars

\* pool.release(conn) finished (asyncpg shields it from cancellation).  If the
\* task still waits for it, the `async with` exit returns: the pending exception
\* propagates to `finally`, else manager.broadcast(json.dumps(...)) is called.
ReleaseDone ==
    /\ relInFlight
    /\ relInFlight' = FALSE
    /\ holders' = holders \ {Consumer}
    /\ IF pc # "releasing"
       THEN UNCHANGED <<consVars, passes, regVars, bcVars, histVars>>
       ELSE IF exc = "none" /\ ~cancelReq
            THEN /\ passes' = Append(passes, cur)
                 /\ BroadcastTurn(<<>>, TRUE)
                 /\ UNCHANGED <<cur, exc, exitWhy, cancelReq, stopped, ws, recv>>
            ELSE /\ pc' = "stopping"
                 /\ exitWhy' = IF exc = "persist" THEN "persist_error" ELSE "cancelled"
                 /\ exc' = "none"
                 /\ cancelReq' = FALSE
                 /\ UNCHANGED <<cur, stopped, passes, regVars, bcVars, histVars>>
    /\ UNCHANGED <<sup, pool, log, rows, inflight, insertAborted>>
    /\ UNCHANGED extVars

\* CancelledError is thrown into the task at the await it is suspended in.
\* It is a BaseException, so broadcast's `except Exception` lets it through.
\* done: whether the awaited operation had taken effect (row written, text sent).
Cancelled(done) ==
    /\ cancelReq
    /\ pc \in {"starting", "waiting", "acquiring", "inserting", "releasing", "sending", "stopping"}
    /\ cancelReq' = FALSE
    /\ pc' = CASE pc = "starting" -> "done"
               [] pc = "stopping" -> "done"
               [] pc = "inserting" -> "releasing"
               [] OTHER -> "stopping"
    /\ exitWhy' = IF exitWhy = "none" THEN "cancelled" ELSE exitWhy
    /\ exc' = IF pc = "inserting" THEN "cancel" ELSE "none"
    /\ relInFlight' = (relInFlight \/ pc = "inserting")
    /\ inflight' = inflight \ {cur}
    /\ insertAborted' = IF pc \in {"acquiring", "inserting"}
                        THEN insertAborted \cup {cur} ELSE insertAborted
    /\ rows' = IF pc = "inserting" /\ done THEN Append(rows, cur) ELSE rows
    /\ recv' = IF pc = "sending" /\ done THEN [recv EXCEPT ![bCur] = Append(@, cur)] ELSE recv
    /\ bPhase' = IF pc = "sending" THEN "aborted" ELSE bPhase
    /\ bCur' = 0
    /\ (pc \notin {"inserting", "sending"} => ~done)
    /\ UNCHANGED <<sup, pool, holders, cur, stopped, log, passes, regVars, bIdx, to_remove,
                   attempts, passStart, passDirty, dropped, unregErr, doubleRemoved, dups, lastDisc>>
    /\ UNCHANGED extVars

\* `finally: await consumer.stop()` returned
StopDone ==
    /\ pc = "stopping"
    /\ ~cancelReq
    /\ pc' = "done"
    /\ stopped' = TRUE
    /\ UNCHANGED <<supVars, cur, exc, exitWhy, cancelReq, dataVars, regVars, bcVars, histVars>>
    /\ UNCHANGED extVars

\* ---------------- ws_alerts ----------------

\* `await manager.connect(websocket)`: accept() returned (ok) and the socket is
\* appended, or accept() raised and the handler ends.  Every request brings a
\* new WebSocket object; the objects are numbered in the order they arrive.
WsConnect(c, ok) ==
    /\ sup = "running"
    /\ ws[c] = "new"
    /\ \A d \in 1..(c - 1) : ws[d] # "new"
    /\ IF ok
       THEN /\ active' = connect(active, c)
            /\ ws' = [ws EXCEPT ![c] = "open"]
            /\ passDirty' = (passDirty \/ bPhase \in {"iter", "ended"})
            /\ lastDisc' = 0
       ELSE /\ ws' = [ws EXCEPT ![c] = "gone"]
            /\ UNCHANGED <<active, passDirty, lastDisc>>
    /\ UNCHANGED <<supVars, consVars, dataVars, bcVars, recv, attempts, passStart, dropped,
                   unregErr, doubleRemoved, dups>>
    /\ UNCHANGED extVars

\* the handler ends on WebSocketDisconnect without calling manager.disconnect
WsDisconnect_NoUnregister(c) ==
    /\ ws[c] = "open"
    /\ ws' = [ws EXCEPT ![c] = "gone"]
    /\ lastDisc' = c
    /\ UNCHANGED <<supVars, consVars, dataVars, bcVars, active, recv, attempts, passStart,
                   passDirty, dropped, unregErr, doubleRemoved, dups>>
    /\ UNCHANGED extVars

\* receive_text() raised WebSocketDisconnect: manager.disconnect(websocket)
WsDisconnect(c) ==
    /\ ws[c] = "open"
    /\ LET d == disconnect(active, c)
       IN /\ active' = d.list
          /\ unregErr' = (unregErr \/ d.raised)
          /\ passDirty' = (passDirty \/ (bPhase \in {"iter", "ended"} /\ d.list # active))
    /\ ws' = [ws EXCEPT ![c] = "gone"]
    /\ lastDisc' = c
    /\ UNCHANGED <<supVars, consVars, dataVars, bcVars, recv, attempts, passStart, dropped,
                   doubleRemoved, dups>>
    /\ UNCHANGED extVars

\* manager.connect called for a socket that is already registered
\* (accept() returns again): the registry as a component, outside ws_alerts
ConnectAgain(c) ==
    /\ sup = "running"
    /\ ws[c] = "open"
    /\ In(c, active)
    /\ dups < MaxDup
    /\ dups' = dups + 1
    /\ active' = connect(active, c)
    /\ passDirty' = (passDirty \/ bPhase \in {"iter", "ended"})
    /\ lastDisc' = 0
    /\ UNCHANGED <<supVars, consVars, dataVars, bcVars, ws, recv, attempts, passStart, dropped,
                   unregErr, doubleRemoved>>
    /\ UNCHANGED extVars

Next ==
    \/ StartupBegin
    \/ \E ok \in BOOLEAN : StartupPoolReady(ok)
    \/ ShutdownBegin
    \/ ShutdownFinish
    \/ \E ok \in BOOLEAN : ConsumerStart(ok)
    \/ \E kind \in Kinds : Receive(kind)
    \/ \E ok \in BOOLEAN : AcquireDone(ok)
    \/ \E ok \in BOOLEAN : InsertDone(ok)
    \/ ReleaseDone
    \/ \E ok \in BOOLEAN : SendDone(ok)
    \/ \E done \in BOOLEAN : Cancelled(done)
    \/ StopDone
    \/ \E c \in Conns, ok \in BOOLEAN : WsConnect(c, ok)
    \/ \E c \in Conns : WsDisconnect(c)

Spec == Init /\ [][Next]_vars

\* The registry driven through its three operations (connect, disconnect,
\* broadcast) by any caller: the running bridge without failures or shutdown,
\* plus connect called for a socket already registered.
NextRegistry ==
    \/ StartupBegin
    \/ StartupPoolReady(TRUE)
    \/ ConsumerStart(TRUE)
    \/ Receive("valid")
    \/ AcquireDone(TRUE)
    \/ InsertDone(TRUE)
    \/ ReleaseDone
    \/ \E ok \in BOOLEAN : SendDone(ok)
    \/ \E c \in Conns, ok \in BOOLEAN : WsConnect(c, ok)
    \/ \E c \in Conns : WsDisconnect(c)
    \/ \E c \in Conns : ConnectAgain(c)

SpecRegistry == Init /\ [][NextRegistry]_vars

\* ---------------- /recent and table activity ----------------

Min(a, b) == IF a < b THEN a ELSE b
Repeat(t, n) == [i \in 1..n |-> t]
Take(s, n) == SubSeq(s, 1, Min(n, Len(s)))

RECURSIVE RowCount(_, _)
RowCount(b, t) == IF t = 0 THEN 0 ELSE b[t] + RowCount(b, t - 1)

\* ORDER BY ts DESC over stamps t, t-1, ..., 1
RECURSIVE ByTsDesc(_, _)
ByTsDesc(b, t) == IF t = 0 THEN <<>> ELSE Repeat(t, b[t]) \o ByTsDesc(b, t - 1)

\* ORDER BY ts (ascending) over stamps t, ..., MaxTs
RECURSIVE ByTsAsc(_, _)
ByTsAsc(b, t) == IF t > MaxTs THEN <<>> ELSE Repeat(t, b[t]) \o ByTsAsc(b, t + 1)

\* the query with the sort direction left out
Recent_Asc(b) == Take(ByTsAsc(b, 1), RecentLimit)

\* SELECT ... FROM activity ORDER BY ts DESC LIMIT 20
Recent(b) == Take(ByTsDesc(b, MaxTs), RecentLimit)

\* INSERT INTO activity (..., ts) VALUES (..., to_timestamp($4)) committed
StoreInsert(t) ==
    /\ RowCount(tbl, MaxTs) < MaxRows
    /\ tbl' = [tbl EXCEPT ![t] = @ + 1]
    /\ qres' = [fresh |-> FALSE, out |-> <<>>]
    /\ UNCHANGED <<coreVars, committed, crashes, rd, payload, pushed>>

\* recent(): conn.fetch(...) returned, the handler returns [dict(r) for r in rows]
RecentQuery ==
    /\ qres' = [fresh |-> TRUE, out |-> Recent(tbl)]
    /\ UNCHANGED <<coreVars, committed, crashes, tbl, rd, payload, pushed>>

NextRecent ==
    \/ \E t \in Stamps : StoreInsert(t)
    \/ RecentQuery

SpecRecent == Init /\ [][NextRecent]_vars

\* ---------------- offsets, crash and restart ----------------

\* positions of the task inside `async for`
InLoop == {"waiting", "acquiring", "inserting", "releasing", "sending"}

\* enable_auto_commit=True: the client commits, in the background and once
\* more inside consumer.stop(), the position of the group, which is the offset
\* after the last record handed to the loop
AutoCommit ==
    /\ pc \in InLoop \cup {"stopping"}
    /\ committed < cur
    /\ committed' = cur
    /\ UNCHANGED <<coreVars, crashes, tbl, qres, rd, payload, pushed>>

\* `async for msg in consumer` after a restart: a record that is already in
\* the log, after the committed offset, is delivered again
Redeliver ==
    /\ pc = "waiting"
    /\ ~cancelReq
    /\ cur < Len(log)
    /\ cur' = cur + 1
    /\ IF log[cur + 1] = "valid"
       THEN pc' = "acquiring" /\ UNCHANGED exitWhy
       ELSE pc' = "stopping" /\ exitWhy' = "decode_error"
    /\ UNCHANGED <<supVars, exc, cancelReq, stopped, log, rows, inflight, insertAborted, passes,
                   regVars, bcVars, histVars>>
    /\ UNCHANGED extVars

\* The process dies and is started again: the broker keeps the log and the
\* committed offset, the store keeps its rows (done: an INSERT in flight was
\* applied), everything else is as after construction; the next run resumes
\* after the committed offset (group_id is fixed, auto_offset_reset applies
\* only without a committed offset).
Crash(done) ==
    /\ sup # "init"
    /\ crashes < MaxCrashes
    /\ done => pc = "inserting"
    /\ crashes' = crashes + 1
    /\ rows' = IF done THEN Append(rows, cur) ELSE rows
    /\ cur' = committed
    /\ sup' = "init" /\ pool' = "none" /\ holders' = {} /\ relInFlight' = FALSE
    /\ pc' = "not_started" /\ exc' = "none" /\ exitWhy' = "none"
    /\ cancelReq' = FALSE /\ stopped' = FALSE
    /\ inflight' = {} /\ insertAborted' = {} /\ passes' = <<>>
    /\ active' = <<>> /\ ws' = [c \in Conns |-> "new"]
    /\ bIdx' = 0 /\ bCur' = 0 /\ to_remove' = <<>> /\ bPhase' = "idle"
    /\ recv' = [c \in Conns |-> <<>>] /\ attempts' = [c \in Conns |-> 0]
    /\ passStart' = <<>> /\ passDirty' = FALSE /\ dropped' = {}
    /\ unregErr' = FALSE /\ doubleRemoved' = FALSE /\ dups' = 0 /\ lastDisc' = 0
    /\ UNCHANGED <<log, committed, tbl, qres, rd, payload, pushed>>

\* the consumer alone (no observers, no shutdown) with commits and restarts
NextRestart ==
    \/ StartupBegin
    \/ StartupPoolReady(TRUE)
    \/ ConsumerStart(TRUE)
    \/ \E kind \in Kinds : Receive(kind)
    \/ Redeliver
    \/ \E ok \in BOOLEAN : AcquireDone(ok)
    \/ \E ok \in BOOLEAN : InsertDone(ok)
    \/ ReleaseDone
    \/ StopDone
    \/ AutoCommit
    \/ \E done \in BOOLEAN : Crash(done)

SpecRestart == Init /\ [][NextRestart]_vars

\* ---------------- the alert pushed for a record ----------------

RequiredKeys == {"student_id", "status", "confidence", "timestamp"}
OptionalKeys == {"type", "extra"}
FieldValues == {"v1", "ALERT"}

\* msg.value: a JSON object with the four event fields and possibly more keys
Payloads == UNION {[RequiredKeys \cup o -> FieldValues] : o \in SUBSET OptionalKeys}

\* a dict display {**a, **b}: for a key in both, the later value wins
DictMerge(a, b) ==
    [k \in DOMAIN a \cup DOMAIN b |-> IF k \in DOMAIN b THEN b[k] ELSE a[k]]

\* {**data, "type": "ALERT"}
AlertOf_TypeLast(data) == DictMerge(data, [k \in {"type"} |-> "ALERT"])

\* {"type": "ALERT", **data}
AlertOf(data) == DictMerge([k \in {"type"} |-> "ALERT"], data)

InitAlert ==
    /\ InitCore
    /\ committed = 0 /\ crashes = 0
    /\ tbl = [t \in Stamps |-> 0] /\ qres = [fresh |-> FALSE, out |-> <<>>]
    /\ rd = [r \in Readers |-> "idle"]
    /\ payload \in Payloads /\ pushed = <<>>

\* manager.broadcast(json.dumps({"type": "ALERT", **data})): the argument is built
BuildAlert ==
    /\ pushed = <<>>
    /\ pushed' = AlertOf(payload)
    /\ UNCHANGED <<coreVars, committed, crashes, tbl, qres, rd, payload>>

NextAlert == BuildAlert

SpecAlert == InitAlert /\ [][NextAlert]_vars

\* ---------------- recent() and the connection pool ----------------

\* GET /recent arrives: recent() calls app.state.db.acquire().  Requests are
\* numbered in the order they arrive.
RdStart(r) ==
    /\ sup = "running"
    /\ rd[r] = "idle"
    /\ \A q \in 1..(r - 1) : rd[q] # "idle"
    /\ rd' = [rd EXCEPT ![r] = "acquiring"]
    /\ UNCHANGED <<coreVars, committed, crashes, tbl, qres, payload, pushed>>

\* `async with app.state.db.acquire() as conn` entered (ok): conn.fetch is
\* issued; or acquire raised and the request fails
RdAcquire(r, ok) ==
    /\ rd[r] = "acquiring"
    /\ IF ok
       THEN /\ pool = "open"
            /\ Cardinality(holders) < PoolMax
            /\ holders' = holders \cup {r}
            /\ rd' = [rd EXCEPT ![r] = "fetching"]
       ELSE /\ (pool # "open" \/ Cardinality(holders) < PoolMax)
            /\ rd' = [rd EXCEPT ![r] = "failed"]
            /\ UNCHANGED holders
    /\ UNCHANGED <<sup, pool, relInFlight, consVars, dataVars, regVars, bcVars, histVars>>
    /\ UNCHANGED <<committed, crashes, tbl, qres, payload, pushed>>

\* conn.fetch(...) returned (ok) or raised: the `async with` exit awaits
\* pool.release(conn), with the exception pending if there is one
RdFetchDone(r, ok) ==
    /\ rd[r] = "fetching"
    /\ rd' = [rd EXCEPT ![r] = IF ok THEN "releasing" ELSE "releasing_err"]
    /\ UNCHANGED <<coreVars, committed, crashes, tbl, qres, payload, pushed>>

\* recent() written without `async with`: a raised fetch skips the release
RdRelease_LeakOnError(r) ==
    /\ rd[r] \in {"releasing", "releasing_err"}
    /\ holders' = IF rd[r] = "releasing" THEN holders \ {r} ELSE holders
    /\ rd' = [rd EXCEPT ![r] = IF rd[r] = "releasing" THEN "done" ELSE "failed"]
    /\ UNCHANGED <<sup, pool, relInFlight, consVars, dataVars, regVars, bcVars, histVars>>
    /\ UNCHANGED <<committed, crashes, tbl, qres, payload, pushed>>

\* pool.release(conn) finished: the handler returns the rows, or the
\* exception of fetch propagates
RdRelease(r) ==
    /\ rd[r] \in {"releasing", "releasing_err"}
    /\ holders' = holders \ {r}
    /\ rd' = [rd EXCEPT ![r] = IF rd[r] = "releasing" THEN "done" ELSE "failed"]
    /\ UNCHANGED <<sup, pool, relInFlight, consVars, dataVars, regVars, bcVars, histVars>>
    /\ UNCHANGED <<committed, crashes, tbl, qres, payload, pushed>>

\* the consumer and the /recent requests sharing the pool, no observers
NextPool ==
    \/ StartupBegin
    \/ StartupPoolReady(TRUE)
    \/ ConsumerStart(TRUE)
    \/ Receive("valid")
    \/ \E ok \in BOOLEAN : AcquireDone(ok)
    \/ \E ok \in BOOLEAN : InsertDone(ok)
    \/ ReleaseDone
    \/ StopDone
    \/ ShutdownBegin
    \/ \E done \in BOOLEAN : Cancelled(done)
    \/ ShutdownFinish
    \/ \E r \in Readers : RdStart(r)
    \/ \E r \in Readers, ok \in BOOLEAN : RdAcquire(r, ok)
    \/ \E r \in Readers, ok \in BOOLEAN : RdFetchDone(r, ok)
    \/ \E r \in Readers : RdRelease(r)

SpecPool == Init /\ [][NextPool]_vars

\* ---------------- properties ----------------

NoDup(s) == \A i, j \in DOMAIN s : i # j => s[i] # s[j]
Last(s) == s[Len(s)]
Without(s, rem) == SelectSeq(s, LAMBDA c : ~In(c, rem))
Running == pc \notin {"not_started", "done"}

\* C1: an alert is sent (or a broadcast called) only for a message whose insert
\* completed before; a message whose acquire/insert raised or was cancelled is
\* never broadcast and never sent to any observer.
C1_WriteBeforeBroadcast ==
    /\ \A i \in DOMAIN passes : In(passes[i], rows) /\ passes[i] \notin insertAborted
    /\ \A c \in Conns : \A i \in DOMAIN recv[c] :
          In(recv[c][i], rows) /\ recv[c][i] \notin insertAborted
    /\ pc = "sending" => (In(cur, rows) /\ cur \notin insertAborted)

C1_Witness ==
    /\ \E c \in Conns : recv[c] # <<>>
    /\ insertAborted # {}

\* C2: a malformed message never makes the consumer leave its loop: it is
\* skipped and the consumer keeps running.
C2_MalformedSkipped ==
    \A k \in DOMAIN log : log[k] = "malformed" => exitWhy # "decode_error"

\* C3: the pool is closing or closed only when the consumer task has terminated.
C3_PoolClosedAfterConsumer ==
    pool \in {"closing", "closed"} => ~Running

\* C4: when a broadcast pass has ended, every connection registered both at its
\* start and at its end was sent the message exactly once.
C4_ExactlyOnce ==
    bPhase = "ended" =>
        \A c \in Range(passStart) \cap Range(active) : attempts[c] = 1

\* C5: in a pass with no concurrent registry change, nothing is removed during
\* the iteration, every connection is tried once, those whose send did not fail
\* received the message, the registry afterwards is the original one minus the
\* failing connections, and a connection dropped by a pass is never sent to again.
C5_FailedSendsIsolated ==
    /\ (bPhase = "iter" /\ ~passDirty) => active = passStart
    /\ (bPhase = "ended" /\ ~passDirty) =>
          /\ active = Without(passStart, to_remove)
          /\ \A c \in Range(passStart) :
                /\ attempts[c] = 1
                /\ ~In(c, to_remove) => (recv[c] # <<>> /\ Last(recv[c]) = Last(passes))
                /\ In(c, to_remove) => ~In(Last(passes), recv[c])
    /\ bCur # 0 => bCur \notin dropped

C5_Witness ==
    /\ bPhase = "ended" /\ ~passDirty
    /\ Len(passStart) = 3
    /\ Len(to_remove) = 1
    /\ Len(active) = 2

\* C6: once the acquire or the insert of a message raised, the consumer is on
\* its way out (releasing, stopping or done), that message is not broadcast, and
\* no later message is pulled, persisted or broadcast.
C6_PersistFailureFatal ==
    insertAborted # {} =>
        /\ insertAborted = {cur}
        /\ pc \in {"releasing", "stopping", "done"}
        /\ Len(log) = cur
        /\ ~In(cur, passes)
        /\ \A i \in DOMAIN rows : rows[i] <= cur
        /\ exitWhy = "persist_error" => ~In(cur, rows)

C6_Witness ==
    /\ exitWhy = "persist_error"
    /\ pc = "done"
    /\ Len(rows) = 1
    /\ cur = 2

\* C7: rows are inserted in broker delivery order, no valid message before the
\* current one is missing from the table, and at most one insert is in flight,
\* which is the one of the current message and comes after every stored row.
C7_InsertOrder ==
    /\ \A i, j \in DOMAIN rows : i < j => rows[i] < rows[j]
    /\ \A i \in DOMAIN rows : log[rows[i]] = "valid"
    /\ \A k \in DOMAIN log : (k < cur /\ log[k] = "valid") => In(k, rows)
    /\ Cardinality(inflight) <= 1
    /\ inflight # {} => (inflight = {cur} /\ \A i \in DOMAIN rows : rows[i] < cur)

C7_Witness ==
    /\ Len(rows) = MaxMsgs
    /\ pc = "waiting"

\* C8: whenever the consumer task exists, and in particular while it acquires
\* a connection or inserts, the pool has been created.
C8_PoolBeforeConsumer ==
    /\ pc # "not_started" => pool # "none"
    /\ pc \in {"acquiring", "inserting", "releasing"} => pool # "none"

C8_Witness ==
    /\ pc = "inserting"
    /\ pool = "open"

\* C9: each connection occurs at most once in the registry, and right after a
\* handler unregistered a connection it is absent.
C9_NoDuplicates ==
    /\ NoDup(active)
    /\ lastDisc # 0 => ~In(lastDisc, active)

\* C10: no unregister ever raises; on every registry the program reaches,
\* unregistering an absent connection changes nothing and unregistering twice
\* equals unregistering once; after a pass whose cleanup met a connection its
\* handler had already removed, every failed connection is absent.
C10_UnregisterIdempotent ==
    /\ ~unregErr
    /\ \A c \in Conns :
          LET once == disconnect(active, c)
              twice == disconnect(once.list, c)
          IN /\ ~once.raised /\ ~twice.raised
             /\ ~In(c, active) => once.list = active
             /\ twice.list = once.list
    /\ (bPhase = "ended" /\ doubleRemoved) =>
          \A c \in Range(to_remove) : ~In(c, active)

C10_Witness ==
    /\ bPhase = "ended"
    /\ doubleRemoved
    /\ active # <<>>

\* a send_text call on connection c begins in this step
SendStarts(c) ==
    /\ bCur' = c
    /\ \/ attempts'[c] > attempts[c]
       \/ passes' # passes

\* C11: a connection whose handler has ended is absent from the registry, no
\* send to it is started from then on, and a pass that starts on an empty
\* registry performs no send and raises nothing.
C11_DisconnectUnregisters ==
    /\ [](\A c \in Conns : ws[c] = "gone" => ~In(c, active))
    /\ []((bPhase = "ended" /\ passStart = <<>>) =>
            /\ \A c \in Conns : attempts[c] = 0
            /\ ~unregErr
            /\ cur = Last(passes) => (pc = "waiting" \/ exitWhy = "cancelled"))
    /\ [][\A c \in Conns : ws[c] = "gone" => ~SendStarts(c)]_vars

C11_Witness ==
    /\ lastDisc = 1
    /\ ws[1] = "gone"
    /\ active = <<>>
    /\ bPhase = "ended"
    /\ passStart = <<>>
    /\ Len(passes) = 1
    /\ pc = "waiting"

\* C12: a failed send never leaves broadcast: a pass is cut short only by
\* cancellation, while it runs the consumer is inside a send, and after it the
\* consumer waits for the next record (or was cancelled while waiting).
C12_SendFailureIsolated ==
    /\ bPhase = "aborted" => exitWhy = "cancelled"
    /\ bPhase = "iter" => pc = "sending"
    /\ (bPhase = "ended" /\ cur = Last(passes)) => (pc = "waiting" \/ exitWhy = "cancelled")
    /\ exitWhy \in {"none", "cancelled", "persist_error", "decode_error", "start_error"}

C12_Witness ==
    /\ dropped # {}
    /\ to_remove = <<>>
    /\ bPhase = "ended"
    /\ rows = <<1, 2>>
    /\ passes = <<1, 2>>
    /\ \E c \in Conns : recv[c] = <<1, 2>>

CancelIssued == sup \in {"closing", "stopped"}

\* C13: once shutdown has cancelled the task no record is pulled and no
\* broadcast is called, and the table changes at most by the whole row of the
\* insert that was in flight; the loop is only ever left into
\* `finally: await consumer.stop()`, whatever the cause, and that call completes
\* unless the cancellation arrives while it is awaited; no insert stays in
\* flight and no row is written twice.
C13_CooperativeCancel ==
    /\ [][CancelIssued =>
            /\ log' = log
            /\ passes' = passes
            /\ \/ rows' = rows
               \/ (pc = "inserting" /\ rows' = Append(rows, cur))]_vars
    /\ [][(pc \in InLoop /\ pc' \notin InLoop) => pc' = "stopping"]_vars
    /\ [][(pc = "stopping" /\ pc' = "done") => (stopped' \/ cancelReq)]_vars
    /\ [](pc \in {"stopping", "done"} => inflight = {})
    /\ [](NoDup(rows))

C13_Witness ==
    /\ CancelIssued
    /\ pc = "done"
    /\ stopped
    /\ exitWhy = "cancelled"
    /\ insertAborted = {cur}
    /\ In(cur, rows)

Occurrences(s, t) == Cardinality({i \in DOMAIN s : s[i] = t})

\* C14: the answer of /recent has min(20, rows) entries, is in descending ts
\* order, consists of rows of the table, and every row left out has a ts not
\* above any returned one; on an empty table it is the empty list.
C14_RecentTopTwenty ==
    qres.fresh =>
        LET out == qres.out
            n == RowCount(tbl, MaxTs)
        IN /\ Len(out) = Min(RecentLimit, n)
           /\ \A i, j \in DOMAIN out : i < j => out[i] >= out[j]
           /\ \A t \in Stamps :
                 /\ Occurrences(out, t) <= tbl[t]
                 /\ Occurrences(out, t) < tbl[t] => \A i \in DOMAIN out : out[i] >= t
           /\ n = 0 => out = <<>>

C14_Witness ==
    /\ qres.fresh
    /\ RowCount(tbl, MaxTs) = 25
    /\ Len(qres.out) = 20
    /\ \A t \in Stamps : tbl[t] > 0
    /\ qres.out[1] # qres.out[20]

\* C15: the committed offset never passes a valid record whose row is not in
\* the table, so no valid record is lost across a restart.
C15_CommitNeverPassesInsert ==
    \A k \in 1..committed : log[k] = "valid" => In(k, rows)

\* C16: the pushed object has type "ALERT" and carries every field of the
\* record with its value.
C16_TypeAlertAndFields ==
    pushed # <<>> =>
        /\ pushed["type"] = "ALERT"
        /\ \A k \in DOMAIN payload : k \in DOMAIN pushed /\ pushed[k] = payload[k]

\* C16 as amended: the pushed object has exactly the record's keys plus type,
\* every field of the record keeps its value, and type is "ALERT" when the
\* record has no key type.
C16_FieldsKeptTypeDefault ==
    pushed # <<>> =>
        /\ DOMAIN pushed = DOMAIN payload \cup {"type"}
        /\ \A k \in DOMAIN payload : pushed[k] = payload[k]
        /\ "type" \notin DOMAIN payload => pushed["type"] = "ALERT"

C16_Witness ==
    /\ pushed # <<>>
    /\ DOMAIN payload = RequiredKeys \cup OptionalKeys
    /\ payload["type"] # "ALERT"
    /\ pushed["extra"] = "v1"

Holding(r) == rd[r] \in {"fetching", "releasing", "releasing_err"}
Exhausted == pool = "open" /\ Cardinality(holders) = PoolMax

Increasing(l) == \A i, j \in DOMAIN l : i < j => l[i] < l[j]

\* C18: the consumer pulls the next message only when no broadcast pass is in
\* progress and every earlier message has had its pass, so no acquire or
\* insert runs during a pass, passes happen in delivery order, and every
\* observer receives its alerts in delivery order.
C18_CyclesDoNotOverlap ==
    /\ [][cur' # cur =>
            /\ cur' = cur + 1
            /\ bPhase \in {"idle", "ended"}
            /\ passes = [i \in 1..cur |-> i]]_vars
    /\ [](pc \in {"acquiring", "inserting"} =>
            (bPhase # "iter" /\ \A i \in DOMAIN passes : passes[i] < cur))
    /\ [](Increasing(passes))
    /\ [](\A c \in Conns : Increasing(recv[c]))
    /\ [](\A c \in Conns : \A i \in DOMAIN recv[c] : In(recv[c][i], passes))

C18_Witness ==
    /\ pc = "sending"
    /\ cur = 2
    /\ \E c \in Conns : recv[c] = <<1, 2>>
    /\ \E c \in Conns : recv[c] = <<1>> /\ bCur = c

====
